---- MODULE Spec2Model ----
(***************************************************************************)
(* A model of the diet-analysis query engine (AzureDietDataProcessor) and  *)
(* of the HTTP handler that drives it.                                     *)
(*                                                                         *)
(* Text is a sequence of one-character strings.  A number is a fraction    *)
(* <<n, d>> in lowest terms; the pandas missing value of a numeric column  *)
(* is NaN = <<0, 0>>, a non-numeric token of a numeric column is Txt.      *)
(* The missing value of a text column is NA.                               *)
(***************************************************************************)
EXTENDS Integers, Sequences, FiniteSets, TLC

\* ------------------------------------------------------------------ bounds
MaxRows == 3

\* -------------------------------------------------------------------- text
\* The characters of the model, in code-point order (Python compares strings
\* by code point).
Alphabet ==
  << "(", "*", ".", "/", "1", "2", "3", "4", "5", "6", "7", "8", "9",
     "A", "B", "C", "U",
     "a", "b", "c", "e", "g", "i", "k", "l", "m", "n", "o", "p", "r", "s", "t",
     "u", "v", "w", "x" >>

Code(c) == CHOOSE i \in 1..Len(Alphabet) : Alphabet[i] = c

\* str.lower() on one character.
LowerChar(c) ==
  CASE c = "A" -> "a"
    [] c = "B" -> "b"
    [] c = "C" -> "c"
    [] c = "U" -> "u"
    [] OTHER -> c

Lower(s) == [i \in 1..Len(s) |-> LowerChar(s[i])]

\* s < t in Python's string order.
RECURSIVE StrLess(_, _)
StrLess(s, t) ==
  IF t = <<>> THEN FALSE
  ELSE IF s = <<>> THEN TRUE
  ELSE IF Code(Head(s)) # Code(Head(t)) THEN Code(Head(s)) < Code(Head(t))
  ELSE StrLess(Tail(s), Tail(t))

\* The missing value of a text column (read_csv reads an empty field as NaN).
NA == << "NaN" >>

Unknown == << "U", "n", "k", "n", "o", "w", "n" >>

\* ----------------------------------------------------------------- numbers
NaN == << 0, 0 >>
Txt == << 1, 0 >>

IsNum(x) == x[2] > 0

RECURSIVE Gcd(_, _)
Gcd(a, b) == IF b = 0 THEN a ELSE Gcd(b, a % b)

Frac(n, d) == LET g == Gcd(n, d) IN << n \div g, d \div g >>

Whole(n) == << n, 1 >>

FAdd(x, y) == Frac(x[1] * y[2] + y[1] * x[2], x[2] * y[2])

FLess(x, y) == x[1] * y[2] < y[1] * x[2]

FLeq(x, y) == x[1] * y[2] <= y[1] * x[2]

\* round(x, 2): to the nearest hundredth, a tie going to the even hundredth;
\* round(nan, 2) is nan.
Round2(x) ==
  IF ~IsNum(x) THEN x
  ELSE LET q == (100 * x[1]) \div x[2]
           r == (100 * x[1]) % x[2]
           h == IF 2 * r > x[2] THEN q + 1
                ELSE IF 2 * r = x[2] THEN q + (q % 2)
                ELSE q
       IN  Frac(h, 100)

\* ------------------------------------------------------------------ tables
TextCols == { "Recipe_name", "Diet_type", "Cuisine_type" }

numeric_cols == << "Protein(g)", "Carbs(g)", "Fat(g)" >>

categorical_cols == << "Diet_type", "Cuisine_type" >>

NumCols == { numeric_cols[i] : i \in 1..Len(numeric_cols) }

AllCols == TextCols \cup NumCols

\* A table is [cols |-> the columns present, rows |-> the rows in input order];
\* a row maps every column name to a cell (the cell of an absent column is
\* never read).
Column(t, c) == [i \in 1..Len(t.rows) |-> t.rows[i][c]]

SetColumn(t, c, cells) ==
  [t EXCEPT !.rows = [i \in 1..Len(t.rows) |-> [t.rows[i] EXCEPT ![c] = cells[i]]]]

MkRow(name, diet, cuisine, p, c, f) ==
  [x \in AllCols |->
     CASE x = "Recipe_name" -> name
       [] x = "Diet_type" -> diet
       [] x = "Cuisine_type" -> cuisine
       [] x = "Protein(g)" -> p
       [] x = "Carbs(g)" -> c
       [] x = "Fat(g)" -> f]

\* The dtype read_csv and fillna leave a column with: a column with no row is
\* object; a numeric column is object when a cell holds a non-numeric token;
\* a text column whose every cell is missing is float64.
Dtype(t, c) ==
  IF Len(t.rows) = 0 THEN "object"
  ELSE IF c \in NumCols
    THEN IF \E i \in 1..Len(t.rows) : t.rows[i][c] = Txt THEN "object" ELSE "float64"
    ELSE IF \A i \in 1..Len(t.rows) : t.rows[i][c] = NA THEN "float64" ELSE "object"

IsMissing(c, x) == IF c \in NumCols THEN x = NaN ELSE x = NA

\* ---------------------------------------------------------------- cleaning
RECURSIVE FSum(_)
FSum(cells) == IF cells = <<>> THEN Whole(0) ELSE FAdd(Head(cells), FSum(Tail(cells)))

\* Series.mean(): the mean of the non-missing values, nan when there is none.
Mean(cells) ==
  LET nn == SelectSeq(cells, IsNum)
      s  == FSum(nn)
  IN  IF Len(nn) = 0 THEN NaN ELSE Frac(s[1], s[2] * Len(nn))

\* Series.mean() raises TypeError on a column that holds a non-numeric token.
MeanRaises(t, c) == \E i \in 1..Len(t.rows) : t.rows[i][c] = Txt

\* A fillna that stops after the first missing cell (fillna(v, limit=1)).
FillNaFirstOnly(c, cells, v) ==
  [i \in 1..Len(cells) |->
     IF IsMissing(c, cells[i]) /\ (\A j \in 1..(i - 1) : ~IsMissing(c, cells[j]))
       THEN v ELSE cells[i]]

\* Series.fillna(v): every missing cell becomes v.
FillNa(c, cells, v) ==
  [i \in 1..Len(cells) |-> IF IsMissing(c, cells[i]) THEN v ELSE cells[i]]

Count(cells, v) == Cardinality({ i \in 1..Len(cells) : cells[i] = v })

StrMin(S) == CHOOSE s \in S : \A u \in S : u = s \/ StrLess(s, u)

RECURSIVE SortedStrs(_)
SortedStrs(S) ==
  IF S = {} THEN <<>> ELSE << StrMin(S) >> \o SortedStrs(S \ { StrMin(S) })

\* A mode that keeps only the most frequent value met first in row order.
ModeFirstSeen(cells) ==
  LET nn == SelectSeq(cells, LAMBDA x : x # NA)
      top == { i \in 1..Len(nn) : \A j \in 1..Len(nn) : Count(nn, nn[j]) <= Count(nn, nn[i]) }
      first == CHOOSE i \in top : \A j \in top : i <= j
  IN  IF Len(nn) = 0 THEN <<>> ELSE << nn[first] >>

\* Series.mode(): the most frequent non-missing values, sorted.
Mode(cells) ==
  LET nn == SelectSeq(cells, LAMBDA x : x # NA)
      vals == { nn[i] : i \in 1..Len(nn) }
  IN  SortedStrs({ v \in vals : \A w \in vals : Count(nn, w) <= Count(nn, v) })

\* _clean_data, the numeric loop from column k on: [ok |-> FALSE] when a mean
\* raises, with the columns filled so far kept in the table.
RECURSIVE CleanNumeric(_, _)
CleanNumeric(t, k) ==
  IF k > Len(numeric_cols) THEN [ok |-> TRUE, t |-> t]
  ELSE LET col == numeric_cols[k] IN
    IF col \notin t.cols THEN CleanNumeric(t, k + 1)
    ELSE IF MeanRaises(t, col) THEN [ok |-> FALSE, t |-> t]
    ELSE LET mean_val == Mean(Column(t, col))
         IN  CleanNumeric(SetColumn(t, col, FillNa(col, Column(t, col), mean_val)), k + 1)

RECURSIVE CleanCategorical(_, _)
CleanCategorical(t, k) ==
  IF k > Len(categorical_cols) THEN t
  ELSE LET col == categorical_cols[k] IN
    IF col \notin t.cols THEN CleanCategorical(t, k + 1)
    ELSE LET mode_value == Mode(Column(t, col))
             fill_value == IF Len(mode_value) > 0 THEN mode_value[1] ELSE Unknown
         IN  CleanCategorical(SetColumn(t, col, FillNa(col, Column(t, col), fill_value)), k + 1)

\* _clean_data on a table: [ok, t]; ok = FALSE when it raises.
clean_data(t) ==
  LET num == CleanNumeric(t, 1)
  IN  IF num.ok THEN [ok |-> TRUE, t |-> CleanCategorical(num.t, 1)] ELSE num

\* ----------------------------------------------------------------- results
\* What a call gives back: a mapping (its items in insertion order, as
\* <<key, value>> pairs), a list, a boolean, or an exception.
Dict(items) == [kind |-> "dict", items |-> items]
List(items) == [kind |-> "list", items |-> items]
Bool(b) == [kind |-> "bool", items |-> << b >>]
Raise(exc) == [kind |-> "raise", items |-> << exc >>]

\* self.data: None or a table.
None == <<>>
Some(t) == << t >>

\* Series.unique(): the distinct values in first-seen order (a missing value
\* is one of them).
RECURSIVE Unique(_)
Unique(cells) ==
  IF cells = <<>> THEN <<>>
  ELSE LET init == Unique(SubSeq(cells, 1, Len(cells) - 1))
           x == cells[Len(cells)]
       IN  IF \E i \in 1..Len(init) : init[i] = x THEN init ELSE Append(init, x)

\* A selection that compares the labels without regard to case.
DietRows_IgnoreCase(t, diet_type) ==
  SelectSeq([i \in 1..Len(t.rows) |-> i],
            LAMBDA i : /\ t.rows[i]["Diet_type"] # NA /\ diet_type # NA
                       /\ Lower(t.rows[i]["Diet_type"]) = Lower(diet_type))

\* The positions of the rows whose Diet_type equals diet_type, in row order
\* (a missing value equals nothing).
DietRows(t, diet_type) ==
  SelectSeq([i \in 1..Len(t.rows) |-> i],
            LAMBDA i : t.rows[i]["Diet_type"] = diet_type /\ diet_type # NA)

\* col.replace("(g)", "")
NutrientName(col) ==
  CASE col = "Protein(g)" -> "Protein"
    [] col = "Carbs(g)" -> "Carbs"
    [] col = "Fat(g)" -> "Fat"

\* f"{nutrient}(g)"
NutrientCol(nutrient) ==
  CASE nutrient = "Protein" -> "Protein(g)"
    [] nutrient = "Carbs" -> "Carbs(g)"
    [] nutrient = "Fat" -> "Fat(g)"
    [] OTHER -> "Sugar(g)"

Pick(cells, idx) == [k \in 1..Len(idx) |-> cells[idx[k]]]

\* Does the mean of column col over the rows idx raise?  It does when the
\* column holds text and a row is selected.
GroupMeanRaises(t, col, idx) == Dtype(t, col) = "object" /\ Len(idx) > 0

\* Averages taken over the whole column instead of the rows of the diet.
get_macronutrient_averages_WholeColumn(d) ==
  IF d = None THEN Dict(<<>>)
  ELSE LET t == d[1]
           available_cols == SelectSeq(numeric_cols, LAMBDA c : c \in t.cols)
       IN
    IF "Diet_type" \notin t.cols \/ available_cols = <<>> THEN Dict(<<>>)
    ELSE LET diets == Unique(Column(t, "Diet_type"))
             averages(diet_type) ==
               [k \in 1..Len(available_cols) |->
                  << NutrientName(available_cols[k]),
                     Round2(Mean(Column(t, available_cols[k]))) >>]
         IN  Dict([i \in 1..Len(diets) |-> << diets[i], averages(diets[i]) >>])

\* get_macronutrient_averages
get_macronutrient_averages(d) ==
  IF d = None THEN Dict(<<>>)
  ELSE LET t == d[1]
           available_cols == SelectSeq(numeric_cols, LAMBDA c : c \in t.cols)
       IN
    IF "Diet_type" \notin t.cols \/ available_cols = <<>> THEN Dict(<<>>)
    ELSE LET diets == Unique(Column(t, "Diet_type"))
             averages(diet_type) ==
               [k \in 1..Len(available_cols) |->
                  << NutrientName(available_cols[k]),
                     Round2(Mean(Pick(Column(t, available_cols[k]), DietRows(t, diet_type)))) >>]
         IN  IF \E i \in 1..Len(diets), k \in 1..Len(available_cols) :
                   GroupMeanRaises(t, available_cols[k], DietRows(t, diets[i]))
               THEN Raise("TypeError")
               ELSE Dict([i \in 1..Len(diets) |-> << diets[i], averages(diets[i]) >>])

\* macros.get(key, 0)
Get(macros, key, default) ==
  IF \E k \in 1..Len(macros) : macros[k][1] = key
    THEN macros[CHOOSE k \in 1..Len(macros) : macros[k][1] = key][2]
    ELSE default

\* A comparison whose total_recipes is the length of the whole table.
get_diet_comparison_data_WholeTable(d) ==
  LET averages == get_macronutrient_averages(d) IN
  IF averages.kind = "raise" THEN averages
  ELSE List([i \in 1..Len(averages.items) |->
         LET diet_type == averages.items[i][1]
             macros == averages.items[i][2]
         IN  [diet_type |-> diet_type,
              protein |-> Get(macros, "Protein", Whole(0)),
              carbs |-> Get(macros, "Carbs", Whole(0)),
              fat |-> Get(macros, "Fat", Whole(0)),
              total_recipes |-> Len(d[1].rows)]])

\* get_diet_comparison_data
get_diet_comparison_data(d) ==
  LET averages == get_macronutrient_averages(d) IN
  IF averages.kind = "raise" THEN averages
  ELSE List([i \in 1..Len(averages.items) |->
         LET diet_type == averages.items[i][1]
             macros == averages.items[i][2]
         IN  [diet_type |-> diet_type,
              protein |-> Get(macros, "Protein", Whole(0)),
              carbs |-> Get(macros, "Carbs", Whole(0)),
              fat |-> Get(macros, "Fat", Whole(0)),
              total_recipes |-> Len(DietRows(d[1], diet_type))]])

\* DataFrame.nlargest(n, col) with keep="first": the positions of the n rows
\* with the largest values, largest first, equal values in row order, rows
\* with a missing value after all others.
Before(cells, j, i) ==
  \/ IsNum(cells[j]) /\ ~IsNum(cells[i])
  \/ IsNum(cells[j]) /\ IsNum(cells[i])
       /\ (FLess(cells[i], cells[j]) \/ (cells[i] = cells[j] /\ j < i))
  \/ ~IsNum(cells[j]) /\ ~IsNum(cells[i]) /\ j < i

Min(a, b) == IF a < b THEN a ELSE b

NLargest(cells, n) ==
  LET N == Len(cells)
      pos(i) == Cardinality({ j \in 1..N : Before(cells, j, i) })
  IN  [k \in 1..Min(n, N) |-> CHOOSE i \in 1..N : pos(i) = k - 1]

\* recipe.get(col, default)
RowGet(t, i, col, default) == IF col \in t.cols THEN t.rows[i][col] ELSE default

\* get_top_recipes_by_nutrient
get_top_recipes_by_nutrient(d, nutrient, n) ==
  IF d = None THEN List(<<>>)
  ELSE LET t == d[1]
           nutrient_col == NutrientCol(nutrient)
       IN
    IF nutrient_col \notin t.cols THEN List(<<>>)
    ELSE IF Dtype(t, nutrient_col) = "object" THEN Raise("TypeError")
    ELSE LET top == NLargest(Column(t, nutrient_col), n)
         IN  List([k \in 1..Len(top) |->
               [row |-> top[k],
                recipe_name |-> RowGet(t, top[k], "Recipe_name", Unknown),
                diet_type |-> RowGet(t, top[k], "Diet_type", Unknown),
                cuisine_type |-> RowGet(t, top[k], "Cuisine_type", Unknown),
                nutrient_value |-> Round2(t.rows[top[k]][nutrient_col]),
                nutrient_type |-> nutrient]])

\* Series.value_counts().to_dict(): each non-missing value with its count,
\* the most frequent first, equal counts in first-seen order.
ValueCounts(cells) ==
  LET vals == Unique(SelectSeq(cells, LAMBDA x : x # NA))
      N == Len(vals)
      pos(i) == Cardinality({ j \in 1..N :
                   \/ Count(cells, vals[j]) > Count(cells, vals[i])
                   \/ Count(cells, vals[j]) = Count(cells, vals[i]) /\ j < i })
  IN  [k \in 1..N |->
         LET i == CHOOSE i \in 1..N : pos(i) = k - 1
         IN  << vals[i], Count(cells, vals[i]) >>]

\* A distribution that counts the cuisines of the whole table for every diet.
CuisineCounts_WholeTable(t) ==
  LET diets == Unique(Column(t, "Diet_type"))
  IN  Dict([i \in 1..Len(diets) |->
        << diets[i], ValueCounts(Column(t, "Cuisine_type")) >>])

\* The distribution of a table that has both columns.
CuisineCounts(t) ==
  LET diets == Unique(Column(t, "Diet_type"))
  IN  Dict([i \in 1..Len(diets) |->
        << diets[i],
           ValueCounts(Pick(Column(t, "Cuisine_type"), DietRows(t, diets[i]))) >>])

\* A distribution that looks for the columns before it asks whether there is
\* a table: None has no columns.
get_cuisine_distribution_ColumnsFirst(d) ==
  IF d = None THEN Raise("AttributeError")
  ELSE IF "Diet_type" \notin d[1].cols \/ "Cuisine_type" \notin d[1].cols THEN Dict(<<>>)
  ELSE CuisineCounts(d[1])

\* get_cuisine_distribution
get_cuisine_distribution(d) ==
  IF d = None THEN Dict(<<>>)
  ELSE IF "Diet_type" \notin d[1].cols \/ "Cuisine_type" \notin d[1].cols THEN Dict(<<>>)
  ELSE CuisineCounts(d[1])

\* Series.min(), max() and median() of a numeric column: over the non-missing
\* values, nan when there is none.
ColMin(cells) ==
  LET nn == SelectSeq(cells, IsNum)
  IN  IF nn = <<>> THEN NaN
      ELSE nn[CHOOSE i \in 1..Len(nn) : \A j \in 1..Len(nn) : FLeq(nn[i], nn[j])]

ColMax(cells) ==
  LET nn == SelectSeq(cells, IsNum)
  IN  IF nn = <<>> THEN NaN
      ELSE nn[CHOOSE i \in 1..Len(nn) : \A j \in 1..Len(nn) : FLeq(nn[j], nn[i])]

Median(cells) ==
  LET nn == SelectSeq(cells, IsNum)
      N == Len(nn)
      ord == NLargest(nn, N)
  IN  IF N = 0 THEN NaN
      ELSE IF N % 2 = 1 THEN nn[ord[(N + 1) \div 2]]
      ELSE LET s == FAdd(nn[ord[N \div 2]], nn[ord[N \div 2 + 1]])
           IN  Frac(s[1], 2 * s[2])

\* get_nutrient_ranges
get_nutrient_ranges(d) ==
  IF d = None THEN Dict(<<>>)
  ELSE LET t == d[1]
           present == SelectSeq(numeric_cols, LAMBDA c : c \in t.cols)
       IN
    IF \E k \in 1..Len(present) : Dtype(t, present[k]) = "object" /\ Len(t.rows) > 0
      THEN Raise("TypeError")
      ELSE Dict([k \in 1..Len(present) |->
             LET cells == Column(t, present[k])
             IN  << NutrientName(present[k]),
                    [min |-> Round2(ColMin(cells)),
                     max |-> Round2(ColMax(cells)),
                     average |-> Round2(Mean(cells)),
                     median |-> Round2(Median(cells))] >>])

\* Series.nunique(): the number of distinct non-missing values.
NUnique(cells) == Len(Unique(SelectSeq(cells, LAMBDA x : x # NA)))

\* mode()[0] if the column is present and has a mode, else "Unknown"
MostCommon(t, col) ==
  IF col \in t.cols /\ Len(Mode(Column(t, col))) > 0
    THEN Mode(Column(t, col))[1] ELSE Unknown

\* get_diet_summary
get_diet_summary(d) ==
  IF d = None THEN Dict(<<>>)
  ELSE LET t == d[1] IN
    Dict(<< << "total_recipes", Len(t.rows) >>,
            << "total_diet_types",
               IF "Diet_type" \in t.cols THEN NUnique(Column(t, "Diet_type")) ELSE 0 >>,
            << "total_cuisine_types",
               IF "Cuisine_type" \in t.cols THEN NUnique(Column(t, "Cuisine_type")) ELSE 0 >>,
            << "diet_types",
               IF "Diet_type" \in t.cols THEN Unique(Column(t, "Diet_type")) ELSE <<>> >>,
            << "most_common_diet", MostCommon(t, "Diet_type") >>,
            << "most_common_cuisine", MostCommon(t, "Cuisine_type") >> >>)

\* round(recipe.get(col, 0), 2) raises TypeError when the cell is text: the
\* cells of an object column are text, its missing cells excepted.
RoundRaises(t, i, col) ==
  col \in t.cols /\ Dtype(t, col) = "object" /\ t.rows[i][col] # NaN

RoundGet(t, i, col) == Round2(RowGet(t, i, col, Whole(0)))

ProjectRaises(t, idx) ==
  \E k \in 1..Len(idx), c \in NumCols : RoundRaises(t, idx[k], c)

\* get_recipes_by_diet_type
get_recipes_by_diet_type(d, diet_type) ==
  IF d = None THEN List(<<>>)
  ELSE LET t == d[1] IN
    IF "Diet_type" \notin t.cols THEN List(<<>>)
    ELSE LET diet_recipes == DietRows(t, diet_type) IN
      IF ProjectRaises(t, diet_recipes) THEN Raise("TypeError")
      ELSE List([k \in 1..Len(diet_recipes) |->
             LET i == diet_recipes[k]
             IN  [row |-> i,  \* the position of the source row, to name it
                  recipe_name |-> RowGet(t, i, "Recipe_name", Unknown),
                  cuisine_type |-> RowGet(t, i, "Cuisine_type", Unknown),
                  protein |-> RoundGet(t, i, "Protein(g)"),
                  carbs |-> RoundGet(t, i, "Carbs(g)"),
                  fat |-> RoundGet(t, i, "Fat(g)")]])

\* ------------------------------------------------------------------ search
\* Series.str.contains(pat, case=False, na=False) reads pat as a regular
\* expression.  Of the characters of the model, "." stands for any character,
\* "*" repeats the item before it and "(" opens a group; the others stand for
\* themselves.
\* re.compile(pat) raises re.error: a "(" is never closed (the model has no
\* ")"), and a "*" needs an item before it that is not itself a "*".
CompileRaises(pat) ==
  \E i \in 1..Len(pat) :
     \/ pat[i] = "("
     \/ pat[i] = "*" /\ (i = 1 \/ pat[i - 1] = "*")

\* One pattern character against one text character, ignoring case.
CharMatch(p, c) == p = "." \/ LowerChar(p) = LowerChar(c)

RECURSIVE MatchHere(_, _)
RECURSIVE MatchStar(_, _, _)
MatchHere(pat, text) ==
  IF pat = <<>> THEN TRUE
  ELSE IF Len(pat) >= 2 /\ pat[2] = "*" THEN MatchStar(pat[1], SubSeq(pat, 3, Len(pat)), text)
  ELSE text # <<>> /\ CharMatch(pat[1], text[1]) /\ MatchHere(Tail(pat), Tail(text))

MatchStar(p, pat, text) ==
  \/ MatchHere(pat, text)
  \/ text # <<>> /\ CharMatch(p, text[1]) /\ MatchStar(p, pat, Tail(text))

\* regex.search(text) is not None
RegexSearch(pat, text) ==
  \E k \in 1..(Len(text) + 1) : MatchHere(pat, SubSeq(text, k, Len(text)))

\* term.lower() in text.lower()
LiteralSearch(term, text) ==
  \E k \in 1..(Len(text) + 1) :
     /\ k + Len(term) - 1 <= Len(text)
     /\ Lower(SubSeq(text, k, k + Len(term) - 1)) = Lower(term)

Digits == << "1", "2", "3", "4", "5", "6", "7", "8", "9" >>

\* The text of a cell of an object column: the token read_csv kept.
CellText(c, x) ==
  IF c \in NumCols THEN (IF x = Txt THEN << "a", "b" >> ELSE << Digits[x[1]] >>) ELSE x

\* The positions of the rows str.contains selects, in row order.
SearchRows(t, search_term, search_field) ==
  SelectSeq([i \in 1..Len(t.rows) |-> i],
            LAMBDA i : /\ ~IsMissing(search_field, t.rows[i][search_field])
                       /\ RegexSearch(search_term,
                                      CellText(search_field, t.rows[i][search_field])))

\* search_recipes
search_recipes(d, search_term, search_field) ==
  IF d = None THEN List(<<>>)
  ELSE LET t == d[1] IN
    IF search_field \notin t.cols THEN List(<<>>)
    ELSE IF Dtype(t, search_field) # "object" THEN Raise("AttributeError")
    ELSE IF CompileRaises(search_term) THEN Raise("re.error")
    ELSE LET matching_recipes == SearchRows(t, search_term, search_field) IN
      IF ProjectRaises(t, matching_recipes) THEN Raise("TypeError")
      ELSE List([k \in 1..Len(matching_recipes) |->
             LET i == matching_recipes[k]
             IN  [row |-> i,
                  recipe_name |-> RowGet(t, i, "Recipe_name", Unknown),
                  diet_type |-> RowGet(t, i, "Diet_type", Unknown),
                  cuisine_type |-> RowGet(t, i, "Cuisine_type", Unknown),
                  protein |-> RoundGet(t, i, "Protein(g)"),
                  carbs |-> RoundGet(t, i, "Carbs(g)"),
                  fat |-> RoundGet(t, i, "Fat(g)")]])

\* ----------------------------------------------------------------- loading
\* What the storage holds under a blob name, or the bytes handed to
\* load_data_from_content: no such blob, bytes read_csv cannot parse, or the
\* bytes of a table.
NoTable == [cols |-> {}, rows |-> <<>>]
Missing == [kind |-> "missing", table |-> NoTable]
Garbage == [kind |-> "garbage", table |-> NoTable]
Csv(t) == [kind |-> "csv", table |-> t]

\* The body both loaders share after the bytes are at hand: read_csv assigns
\* self.data, then _clean_data runs; any exception makes the load return False.
LoadBytes(d, content) ==
  IF content.kind # "csv" THEN [ret |-> FALSE, data |-> d]
  ELSE LET c == clean_data(content.table)
       IN  [ret |-> c.ok, data |-> Some(c.t)]

\* load_data_from_blob: download_blob raises ResourceNotFoundError when the
\* blob is missing.
load_data_from_blob(d, stored) ==
  IF stored.kind = "missing" THEN [ret |-> FALSE, data |-> d] ELSE LoadBytes(d, stored)

\* load_data_from_content
load_data_from_content(d, content) == LoadBytes(d, content)

\* ------------------------------------------------------------------ inputs
Seqs(S, n) == UNION { [1..k -> S] : k \in 0..n }

Tables(cols, R) == { [cols |-> cols, rows |-> r] : r \in Seqs(R, MaxRows) }

sA == << "a" >>
sB == << "B" >>
sb == << "b" >>

\* Rows that vary the diet type and the protein value.
RowsNum ==
  { MkRow(sA, x[1], sA, x[2], Whole(3), Whole(5)) :
      x \in { << sA, NaN >>, << sA, Whole(1) >>, << sB, Whole(1) >>, << sB, Whole(2) >> } }

\* Rows that vary the other two macronutrients.
RowsMacro ==
  { MkRow(sA, sA, sA, Whole(1), x[1], x[2]) :
      x \in { << NaN, Whole(5) >>, << Whole(3), NaN >>, << Whole(3), Whole(6) >> } }

\* Rows that vary the categories.
RowsCat ==
  { MkRow(sA, x[1], x[2], Whole(1), Whole(3), Whole(5)) :
      x \in { << NA, sA >>, << sA, sA >>, << sB, sb >>, << sA, NA >> } }

\* Rows that vary the recipe name.
RowsText ==
  { MkRow(name, sA, sA, Whole(1), Whole(3), Whole(5)) :
      name \in { NA, << "a", "b" >>, << "A", "." >>, sb } }

\* Rows with a non-numeric token in a macronutrient column.
RowsBad ==
  { MkRow(sA, sA, sA, x[1], x[2], Whole(5)) :
      x \in { << NaN, Txt >>, << Whole(2), Txt >>, << Txt, Whole(3) >>,
              << Whole(2), Whole(3) >> } }

\* The three recipes of the documented example: two vegan, one keto, no cell
\* missing.
vegan == << "v", "e", "g", "a", "n" >>
keto == << "k", "e", "t", "o" >>
italian == << "i", "t", "a", "l", "i", "a", "n" >>
mexican == << "m", "e", "x", "i", "c", "a", "n" >>

ThreeRecipes ==
  [cols |-> AllCols,
   rows |-> << MkRow(<< "A" >>, vegan, italian, Whole(10), Whole(20), Whole(5)),
               MkRow(<< "B" >>, vegan, mexican, Whole(30), Whole(10), Whole(2)),
               MkRow(<< "C" >>, keto, italian, Whole(5), Whole(5), Whole(25)) >>]

HasTxt(t) == \E i \in 1..Len(t.rows), c \in NumCols : t.rows[i][c] = Txt

\* Tables that lack some of the expected columns.
ColsBase ==
  << MkRow(sA, sA, sA, Whole(1), Whole(3), Whole(5)),
     MkRow(sb, NA, sb, NaN, Whole(3), NaN) >>

Datasets ==
  Tables(AllCols, RowsNum) \cup Tables(AllCols, RowsMacro)
    \cup Tables(AllCols, RowsCat) \cup Tables(AllCols, RowsText)
    \cup { t \in Tables(AllCols, RowsBad) : HasTxt(t) }
    \cup { [cols |-> cols, rows |-> ColsBase] : cols \in SUBSET AllCols }
    \cup { ThreeRecipes }

Sources == { Missing, Garbage } \cup { Csv(t) : t \in Datasets }

Nutrients == { "Protein", "Sugar" }
Counts == 1..MaxRows
DietArgs == { sA, sB, sb, vegan }
Terms == { <<>>, << "A", "B" >>, << "." >>, << "b", "*" >>, << "*" >>, << "(" >> }
Fields == { "Recipe_name", "Protein(g)", "Notes" }

\* ------------------------------------------------------------------- state
VARIABLES
  blob,      \* what the storage holds under All_Diets.csv
  data,      \* the processor's self.data
  raw,       \* the table the latest read_csv returned, before cleaning
  lastLoad,  \* "none", or how the latest load ended: "ok" or "failed"
  last,      \* the latest call on the processor: [op, args, out]
  http,      \* the latest HTTP invocation: its request, calls and response
  inv        \* the HTTP invocations in flight side by side, each with its own
             \* position in main, request, processor and response

vars == << blob, data, raw, lastLoad, last, http, inv >>

Call(op, args, out) == [op |-> op, args |-> args, out |-> out]

NoCall == Call("none", <<>>, List(<<>>))

NoHttp == [req |-> <<>>, conn |-> FALSE, calls |-> <<>>, status |-> 0, body |-> List(<<>>)]

\* The invocations that may be in flight together.
Invocations == { 1, 2 }

\* An invocation that has not begun.
Idle ==
  [pc |-> "idle", req |-> <<>>, conn |-> FALSE, data |-> None, src |-> Missing,
   calls |-> <<>>, status |-> 0, body |-> List(<<>>)]

Init ==
  /\ blob \in Sources
  /\ data = None
  /\ raw = None
  /\ lastLoad = "none"
  /\ last = NoCall
  /\ http = NoHttp
  /\ inv = [i \in Invocations |-> Idle]

\* One load on the processor, its bytes being `content`.
Loaded(op, arg, content, res) ==
  /\ data' = res.data
  /\ raw' = IF content.kind = "csv" THEN Some(content.table) ELSE raw
  /\ lastLoad' = IF res.ret THEN "ok" ELSE "failed"
  /\ last' = Call(op, << arg >>, Bool(res.ret))
  /\ UNCHANGED << blob, http, inv >>

\* processor.load_data_from_blob(blob_name): the default name or another one,
\* under which the storage holds nothing.
LoadBlob ==
  \E blob_name \in { "All_Diets.csv", "other.csv" } :
    LET stored == IF blob_name = "All_Diets.csv" THEN blob ELSE Missing
    IN  Loaded("load_data_from_blob", blob_name, stored, load_data_from_blob(data, stored))

\* processor.load_data_from_content(content): the bytes of the blob, or bytes
\* that are no table.
LoadContent ==
  \E content \in { Garbage } \cup (IF blob.kind = "csv" THEN { blob } ELSE {}) :
    Loaded("load_data_from_content", content.kind, content,
           load_data_from_content(data, content))

\* A query that worked on the stored table itself and dropped its last row.
Query_TruncatesTable(op, args, out) ==
  /\ last' = Call(op, args, out)
  /\ data' = IF data = None THEN None
             ELSE Some([data[1] EXCEPT !.rows = SubSeq(@, 1, Len(@) - 1)])
  /\ UNCHANGED << blob, raw, lastLoad, http, inv >>

\* A query on the processor: the table is left as it is.
Query(op, args, out) ==
  /\ last' = Call(op, args, out)
  /\ UNCHANGED << blob, data, raw, lastLoad, http, inv >>

Summary == Query("get_diet_summary", <<>>, get_diet_summary(data))

Macronutrients ==
  Query("get_macronutrient_averages", <<>>, get_macronutrient_averages(data))

Comparison == Query("get_diet_comparison_data", <<>>, get_diet_comparison_data(data))

TopRecipes ==
  \E nutrient \in Nutrients, n \in Counts :
    Query("get_top_recipes_by_nutrient", << nutrient, n >>,
          get_top_recipes_by_nutrient(data, nutrient, n))

CuisineDistribution ==
  Query("get_cuisine_distribution", <<>>, get_cuisine_distribution(data))

NutrientRanges == Query("get_nutrient_ranges", <<>>, get_nutrient_ranges(data))

RecipesByDietType ==
  \E diet_type \in DietArgs :
    Query("get_recipes_by_diet_type", << diet_type >>,
          get_recipes_by_diet_type(data, diet_type))

Search ==
  \E search_term \in Terms, search_field \in Fields :
    Query("search_recipes", << search_term, search_field >>,
          search_recipes(data, search_term, search_field))

\* processor._clean_data() called once more on the processor.
CleanAgain ==
  /\ data # None
  /\ LET c == clean_data(data[1]) IN
       /\ data' = Some(c.t)
       /\ last' = Call("_clean_data", <<>>, IF c.ok THEN List(<<>>) ELSE Raise("TypeError"))
  /\ UNCHANGED << blob, raw, lastLoad, http, inv >>

\* ------------------------------------------------------------ HTTP handler
\* A request: the route parameter `operation` and the query parameters.  The
\* route is a word (written in lower case here; upper = TRUE when the request
\* spells it with capitals) and, after "recipes/", a tail.  An absent
\* parameter is <<>>, a present one << value >>.
Request(word, upper, tail, nutrient, n, term, field) ==
  [word |-> word, upper |-> upper, tail |-> tail,
   nutrient |-> nutrient, n |-> n, term |-> term, field |-> field]

\* operation.lower()
LowerRoute(req) == [word |-> req.word, upper |-> FALSE, tail |-> Lower(req.tail)]

\* operation == literal
RouteIs(operation, literal) == operation.word = literal /\ operation.tail = <<>>

\* req.params.get(key, default)
ParamGet(param, default) == IF param = <<>> THEN default ELSE param[1]

\* A parse that caps n at 100 and forgets the lower end.
ParseN_NoLowerEnd(param) ==
  LET n == IF param = <<>> THEN 10 ELSE IF param[1].int THEN param[1].v ELSE 10
  IN  IF n < 100 THEN n ELSE 100

\* int(req.params.get("n", 10)), 10 when the text is no integer; then
\* max(1, min(n, 100)).  A present n is [int |-> TRUE, v |-> value] or
\* [int |-> FALSE, v |-> 0] for text that is no integer.
ParseN(param) ==
  LET n == IF param = <<>> THEN 10 ELSE IF param[1].int THEN param[1].v ELSE 10
      m == IF n < 100 THEN n ELSE 100
  IN  IF m > 1 THEN m ELSE 1

\* s.replace(old, ""): every occurrence of old is taken out, from the left.
RECURSIVE Remove(_, _)
Remove(s, old) ==
  IF Len(s) < Len(old) THEN s
  ELSE IF SubSeq(s, 1, Len(old)) = old THEN Remove(SubSeq(s, Len(old) + 1, Len(s)), old)
  ELSE << Head(s) >> \o Remove(Tail(s), old)

\* "recipes/"
RecipesPrefix == << "r", "e", "c", "i", "p", "e", "s", "/" >>

Response(calls, status, body) == [calls |-> calls, status |-> status, body |-> body]

\* The routing of main once the data is loaded: the call it makes, if any, and
\* the response.
Route(d, req, calls) ==
  LET operation == LowerRoute(req)
      answer(call) ==
        IF call.out.kind = "raise"
          THEN Response(Append(calls, call), 500, call.out)
          ELSE Response(Append(calls, call), 200, call.out)
  IN
  IF RouteIs(operation, "summary")
    THEN answer(Call("get_diet_summary", <<>>, get_diet_summary(d)))
  ELSE IF RouteIs(operation, "macronutrients")
    THEN answer(Call("get_macronutrient_averages", <<>>, get_macronutrient_averages(d)))
  ELSE IF RouteIs(operation, "comparison")
    THEN answer(Call("get_diet_comparison_data", <<>>, get_diet_comparison_data(d)))
  ELSE IF RouteIs(operation, "top-recipes")
    THEN LET nutrient == ParamGet(req.nutrient, "Protein")
             n == ParseN(req.n)
         IN  answer(Call("get_top_recipes_by_nutrient", << nutrient, n >>,
                         get_top_recipes_by_nutrient(d, nutrient, n)))
  ELSE IF RouteIs(operation, "cuisine-distribution")
    THEN answer(Call("get_cuisine_distribution", <<>>, get_cuisine_distribution(d)))
  ELSE IF RouteIs(operation, "nutrient-ranges")
    THEN answer(Call("get_nutrient_ranges", <<>>, get_nutrient_ranges(d)))
  ELSE IF operation.word = "recipes/"
    THEN LET diet_type == Remove(RecipesPrefix \o operation.tail, RecipesPrefix)
         IN  answer(Call("get_recipes_by_diet_type", << diet_type >>,
                         get_recipes_by_diet_type(d, diet_type)))
  ELSE IF RouteIs(operation, "search")
    THEN LET search_term == ParamGet(req.term, <<>>)
             search_field == ParamGet(req.field, "Recipe_name")
         IN  IF search_term = <<>>
               THEN Response(calls, 400, Raise("Search term is required"))
               ELSE answer(Call("search_recipes", << search_term, search_field >>,
                                search_recipes(d, search_term, search_field)))
  ELSE Response(calls, 200, Dict(<< << "status", "running" >> >>))

\* A handler that rejects the empty search term before it builds the
\* processor and loads.
main_RejectsBeforeLoad(req, conn, stored) ==
  LET operation == LowerRoute(req) IN
  IF RouteIs(operation, "health")
    THEN Response(<<>>, 200, Dict(<< << "status", "healthy" >> >>))
  ELSE IF RouteIs(operation, "search") /\ ParamGet(req.term, <<>>) = <<>>
    THEN Response(<<>>, 400, Raise("Search term is required"))
  ELSE IF ~conn
    THEN Response(<< Call("__init__", <<>>, Raise("ValueError")) >>, 500, Raise("ValueError"))
  ELSE LET res == load_data_from_blob(None, stored)
           calls == << Call("__init__", <<>>, List(<<>>)),
                       Call("load_data_from_blob", <<>>, Bool(res.ret)) >>
       IN  IF ~res.ret
             THEN Response(calls, 500, Raise("Failed to load data from blob storage"))
             ELSE Route(res.data, req, calls)

\* A handler that blames the caller for the missing connection string.
main_MissingConnection400(req, conn, stored) ==
  LET operation == LowerRoute(req) IN
  IF RouteIs(operation, "health")
    THEN Response(<<>>, 200, Dict(<< << "status", "healthy" >> >>))
  ELSE IF ~conn
    THEN Response(<< Call("__init__", <<>>, Raise("ValueError")) >>, 400, Raise("ValueError"))
  ELSE LET res == load_data_from_blob(None, stored)
           calls == << Call("__init__", <<>>, List(<<>>)),
                       Call("load_data_from_blob", <<>>, Bool(res.ret)) >>
       IN  IF ~res.ret
             THEN Response(calls, 500, Raise("Failed to load data from blob storage"))
             ELSE Route(res.data, req, calls)

\* main(req): conn tells whether the AzureWebJobsStorage connection string is
\* set, stored is what the storage holds.
main(req, conn, stored) ==
  LET operation == LowerRoute(req) IN
  IF RouteIs(operation, "health")
    THEN Response(<<>>, 200, Dict(<< << "status", "healthy" >> >>))
  ELSE IF ~conn
    THEN Response(<< Call("__init__", <<>>, Raise("ValueError")) >>, 500, Raise("ValueError"))
  ELSE LET res == load_data_from_blob(None, stored)
           calls == << Call("__init__", <<>>, List(<<>>)),
                       Call("load_data_from_blob", <<>>, Bool(res.ret)) >>
       IN  IF ~res.ret
             THEN Response(calls, 500, Raise("Failed to load data from blob storage"))
             ELSE Route(res.data, req, calls)

Absent == <<>>
Present(v) == << v >>

Requests ==
  { Request(w, FALSE, <<>>, Absent, Absent, Absent, Absent) :
      w \in { "health", "summary", "macronutrients", "comparison",
              "cuisine-distribution", "nutrient-ranges", "", "menu" } }
  \cup { Request(w, TRUE, <<>>, Absent, Absent, Absent, Absent) :
           w \in { "health", "summary" } }
  \cup { Request("top-recipes", FALSE, <<>>, nutrient, n, Absent, Absent) :
           nutrient \in { Absent, Present("Sugar") },
           n \in { Absent, Present([int |-> FALSE, v |-> 0]) }
                   \cup { Present([int |-> TRUE, v |-> k]) : k \in { -1, 0, 2, 101 } } }
  \cup { Request("recipes/", FALSE, tail, Absent, Absent, Absent, Absent) :
           tail \in { <<>>, sA, sB, sb, RecipesPrefix \o sA } }
  \cup { Request("search", FALSE, <<>>, Absent, Absent, term, field) :
           term \in { Absent } \cup { Present(x) : x \in { <<>>, << "A", "B" >>, << "." >>, << "(" >> } },
           field \in { Absent, Present("Protein(g)"), Present("Notes") } }

\* One HTTP invocation, from the request to the response.
Main ==
  /\ http = NoHttp
  /\ \E req \in Requests, conn \in BOOLEAN :
       LET r == main(req, conn, blob) IN
         http' = [req |-> << req >>, conn |-> conn, calls |-> r.calls,
                  status |-> r.status, body |-> r.body]
  /\ UNCHANGED << blob, data, raw, lastLoad, last, inv >>

\* The response is sent and the invocation is over: nothing of it is kept.
Return ==
  /\ http # NoHttp
  /\ http' = NoHttp
  /\ UNCHANGED << blob, data, raw, lastLoad, last, inv >>

Next ==
  \/ LoadBlob
  \/ LoadContent
  \/ Summary
  \/ Macronutrients
  \/ Comparison
  \/ TopRecipes
  \/ CuisineDistribution
  \/ NutrientRanges
  \/ RecipesByDietType
  \/ Search
  \/ CleanAgain

Spec == Init /\ [][Next]_vars

\* The HTTP handler alone: invocations one after another.
HttpNext == Main \/ Return

HttpSpec == Init /\ [][HttpNext]_vars

\* --------------------------------------------- invocations side by side
\* The Functions host may run main for two requests at once.  Each step below
\* is a stretch of main for invocation i; the storage may be written by an
\* upload between any two steps.
ConcSources ==
  { Missing, Csv(ThreeRecipes), Csv([cols |-> AllCols, rows |-> <<>>]),
    Csv([cols |-> AllCols,
         rows |-> << MkRow(sA, sB, sA, Whole(1), Whole(3), Whole(5)) >>]) }

ConcRequests ==
  { Request(w, FALSE, <<>>, Absent, Absent, Absent, Absent) :
      w \in { "health", "summary", "menu" } }
  \cup { Request("top-recipes", FALSE, <<>>, Absent, Absent, Absent, Absent),
         Request("recipes/", FALSE, vegan, Absent, Absent, Absent, Absent),
         Request("search", FALSE, <<>>, Absent, Absent, Present(<<>>), Absent) }

Others == << blob, data, raw, lastLoad, last, http >>

\* The request arrives and main is entered.
Invoke(i) ==
  /\ inv[i].pc = "idle"
  /\ \E req \in ConcRequests, conn \in BOOLEAN :
       inv' = [inv EXCEPT ![i] = [Idle EXCEPT !.pc = "start", !.req = << req >>,
                                               !.conn = conn]]
  /\ UNCHANGED Others

\* The health check, then processor = AzureDietDataProcessor(): a processor
\* of this invocation, its data None.
NewProcessor(i) ==
  /\ inv[i].pc = "start"
  /\ LET operation == LowerRoute(inv[i].req[1]) IN
       inv' = [inv EXCEPT ![i] =
         IF RouteIs(operation, "health")
           THEN [@ EXCEPT !.pc = "done", !.status = 200,
                          !.body = Dict(<< << "status", "healthy" >> >>)]
         ELSE IF ~inv[i].conn
           THEN [@ EXCEPT !.pc = "done", !.status = 500, !.body = Raise("ValueError"),
                          !.calls = << Call("__init__", <<>>, Raise("ValueError")) >>]
         ELSE [@ EXCEPT !.pc = "constructed", !.data = None,
                        !.calls = << Call("__init__", <<>>, List(<<>>)) >>]]
  /\ UNCHANGED Others

\* What invocation i is after its load of what the storage holds now.
AfterLoad(i) ==
  LET res == load_data_from_blob(inv[i].data, blob)
      calls == Append(inv[i].calls, Call("load_data_from_blob", <<>>, Bool(res.ret)))
  IN  IF ~res.ret
        THEN [inv[i] EXCEPT !.pc = "done", !.src = blob, !.data = res.data,
                            !.calls = calls, !.status = 500,
                            !.body = Raise("Failed to load data from blob storage")]
        ELSE [inv[i] EXCEPT !.pc = "loaded", !.src = blob, !.data = res.data,
                            !.calls = calls]

\* A load into a processor that all invocations hold in common: the table of
\* invocation i replaces the table of every invocation already loaded.
LoadData_SharedProcessor(i) ==
  /\ inv[i].pc = "constructed"
  /\ inv' = [j \in Invocations |->
               IF j = i THEN AfterLoad(i)
               ELSE IF inv[j].pc = "loaded" THEN [inv[j] EXCEPT !.data = AfterLoad(i).data]
               ELSE inv[j]]
  /\ UNCHANGED Others

\* processor.load_data_from_blob() on the processor of invocation i.
LoadData(i) ==
  /\ inv[i].pc = "constructed"
  /\ inv' = [inv EXCEPT ![i] = AfterLoad(i)]
  /\ UNCHANGED Others

\* The routing on the loaded processor, up to the response.
Dispatch(i) ==
  /\ inv[i].pc = "loaded"
  /\ LET r == Route(inv[i].data, inv[i].req[1], inv[i].calls) IN
       inv' = [inv EXCEPT ![i] = [@ EXCEPT !.pc = "done", !.calls = r.calls,
                                           !.status = r.status, !.body = r.body]]
  /\ UNCHANGED Others

\* The response is sent; the processor of the invocation is dropped.
Respond(i) ==
  /\ inv[i].pc = "done"
  /\ inv' = [inv EXCEPT ![i] = Idle]
  /\ UNCHANGED Others

\* Somebody writes All_Diets.csv, or deletes it.
Upload ==
  /\ \E b \in ConcSources \ { blob } : blob' = b
  /\ UNCHANGED << data, raw, lastLoad, last, http, inv >>

ConcInit == Init /\ blob \in ConcSources

ConcNext ==
  \/ Upload
  \/ \E i \in Invocations :
       Invoke(i) \/ NewProcessor(i) \/ LoadData(i) \/ Dispatch(i) \/ Respond(i)

ConcSpec == ConcInit /\ [][ConcNext]_vars

\* ================================================================== claims
QueryOps ==
  { "get_diet_summary", "get_macronutrient_averages", "get_diet_comparison_data",
    "get_top_recipes_by_nutrient", "get_cuisine_distribution", "get_nutrient_ranges",
    "get_recipes_by_diet_type", "search_recipes" }

\* The answer each query documents for "no dataset loaded".
EmptyDefault(op) ==
  IF op \in { "get_diet_summary", "get_macronutrient_averages",
              "get_cuisine_distribution", "get_nutrient_ranges" }
    THEN Dict(<<>>) ELSE List(<<>>)

IsEmptyDefault(call) ==
  /\ call.out.kind = EmptyDefault(call.op).kind
  /\ Len(call.out.items) = 0

Loaded_ok == lastLoad = "ok" /\ data # None

\* C1: once a load has reported failure (and no load has succeeded since),
\* every query answers its "no dataset loaded" default.
C1_FailedLoadInstallsNothing ==
  (lastLoad = "failed" /\ last.op \in QueryOps) => IsEmptyDefault(last)

\* C2: on a processor with no dataset, each of the eight queries answers an
\* empty mapping or an empty list and does not raise, whatever its arguments.
C2_NoDatasetEmptyResult ==
  (data = None /\ last.op \in QueryOps) => IsEmptyDefault(last)

\* C2 witness: a search with a pattern re.compile rejects, on a numeric
\* field, made on a processor whose only load failed.
C2_Witness ==
  /\ data = None
  /\ lastLoad = "failed"
  /\ last.op = "search_recipes"
  /\ last.args = << << "(" >>, "Protein(g)" >>
  /\ IsEmptyDefault(last)

\* C3: with a dataset loaded, no query raises.
C3_LoadedQueryNeverRaises ==
  (Loaded_ok /\ last.op \in QueryOps) => last.out.kind # "raise"

\* C4: after cleaning, a numeric column has no missing value, and every cell
\* that was missing holds the mean of the values that were not.
C4_NumericFilledWithMean ==
  Loaded_ok =>
    \A c \in NumCols \cap data[1].cols : \A i \in 1..Len(data[1].rows) :
       /\ data[1].rows[i][c] # NaN
       /\ raw[1].rows[i][c] = NaN => data[1].rows[i][c] = Mean(Column(raw[1], c))

\* C5: cleaning a cleaned table changes no cell.
C5_CleanIdempotent ==
  Loaded_ok => clean_data(data[1]) = [ok |-> TRUE, t |-> data[1]]

\* C5 witness: the cleaning step has run again on a loaded table whose first
\* cleaning filled a numeric cell and a category cell.
C5_Witness ==
  /\ Loaded_ok
  /\ last.op = "_clean_data"
  /\ \E i \in 1..Len(raw[1].rows) :
        /\ \E c \in NumCols : raw[1].rows[i][c] = NaN /\ data[1].rows[i][c] # NaN
        /\ \E j \in 1..Len(raw[1].rows) : raw[1].rows[j]["Diet_type"] = NA

\* The most frequent non-missing values of a column.
MostFrequent(cells) ==
  { v \in { cells[i] : i \in 1..Len(cells) } \ { NA } :
      \A w \in { cells[i] : i \in 1..Len(cells) } \ { NA } : Count(cells, w) <= Count(cells, v) }

FirstIndex(cells, v) == CHOOSE i \in 1..Len(cells) : cells[i] = v /\ \A j \in 1..(i - 1) : cells[j] # v

\* v is the most frequent value that occurs first in row order, "Unknown"
\* when there is no value.
IsFirstSeenMode(v, cells) ==
  IF MostFrequent(cells) = {} THEN v = Unknown
  ELSE /\ v \in MostFrequent(cells)
       /\ \A w \in MostFrequent(cells) : FirstIndex(cells, v) <= FirstIndex(cells, w)

\* v is the most frequent value that sorts first, "Unknown" when there is no
\* value.
IsSmallestMode(v, cells) ==
  IF MostFrequent(cells) = {} THEN v = Unknown
  ELSE /\ v \in MostFrequent(cells)
       /\ \A w \in MostFrequent(cells) \ { v } : StrLess(v, w)

SummaryField(key) == Get(last.out.items, key, Unknown)

RowsOf(out) == [k \in 1..Len(out.items) |-> out.items[k].row]

\* C7: for a loaded table, a nutrient whose column exists and n >= 1, the top
\* recipes are min(n, rowCount) rows, in non-increasing order of the nutrient,
\* equal values in row order, the earlier of tied rows being the ones kept.
C7_TopNStableDescending ==
  (Loaded_ok /\ last.op = "get_top_recipes_by_nutrient"
     /\ NutrientCol(last.args[1]) \in data[1].cols) =>
    LET cells == Column(data[1], NutrientCol(last.args[1]))
        n == last.args[2]
        N == Len(cells)
    IN  /\ last.out.kind = "list"
        /\ Len(last.out.items) = Min(n, N)
        /\ LET top == RowsOf(last.out) IN
             /\ \A k \in 1..(Len(top) - 1) :
                  \/ FLess(cells[top[k + 1]], cells[top[k]])
                  \/ cells[top[k + 1]] = cells[top[k]] /\ top[k] < top[k + 1]
             /\ \A i \in 1..N :
                  (\A k \in 1..Len(top) : top[k] # i) =>
                    \A k \in 1..Len(top) :
                       \/ FLess(cells[i], cells[top[k]])
                       \/ cells[i] = cells[top[k]] /\ top[k] < i

\* C8: a search answers exactly the rows whose value in the field is present
\* and contains the term as a literal substring, ignoring case, in row order.
C8_SearchLiteralSubstring ==
  (Loaded_ok /\ last.op = "search_recipes" /\ last.args[2] \in data[1].cols) =>
    LET t == data[1]
        term == last.args[1]
        field == last.args[2]
    IN  /\ last.out.kind = "list"
        /\ RowsOf(last.out) =
             SelectSeq([i \in 1..Len(t.rows) |-> i],
                       LAMBDA i : /\ ~IsMissing(field, t.rows[i][field])
                                  /\ field \in TextCols
                                  /\ LiteralSearch(term, t.rows[i][field]))

RECURSIVE SumTotals(_)
SumTotals(items) ==
  IF items = <<>> THEN 0 ELSE Head(items).total_recipes + SumTotals(Tail(items))

\* The comparison rows are one per distinct diet type, each with the number
\* of rows of that diet type, so that the totals add up to the row count.
ComparisonCounts(t, out) ==
  /\ out.kind = "list"
  /\ SumTotals(out.items) = Len(t.rows)
  /\ \A i \in 1..Len(t.rows) :
       Cardinality({ k \in 1..Len(out.items) :
                       out.items[k].diet_type = t.rows[i]["Diet_type"] }) = 1
  /\ \A k \in 1..Len(out.items) :
       /\ out.items[k].total_recipes > 0
       /\ out.items[k].total_recipes =
            Cardinality({ i \in 1..Len(t.rows) :
                            t.rows[i]["Diet_type"] = out.items[k].diet_type })

\* C10 as claimed: for every loaded table the comparison rows are one per
\* distinct diet type, each counting its rows, the totals adding up to the row
\* count.
C10_ComparisonTotalsAllTables ==
  (Loaded_ok /\ last.op = "get_diet_comparison_data") =>
    /\ last.out.kind = "list"
    /\ SumTotals(last.out.items) = Len(data[1].rows)
    /\ "Diet_type" \in data[1].cols => ComparisonCounts(data[1], last.out)

HasMacroColumns(t) == "Diet_type" \in t.cols /\ NumCols \cap t.cols # {}

\* C10 as amended: for a loaded table that has the Diet_type column and at
\* least one macronutrient column, the comparison rows are one per distinct
\* diet type, each counting its rows, the totals adding up to the row count;
\* for any other loaded table the comparison is the empty list.
C10_ComparisonTotals ==
  (Loaded_ok /\ last.op = "get_diet_comparison_data") =>
    IF HasMacroColumns(data[1])
      THEN ComparisonCounts(data[1], last.out)
      ELSE IsEmptyDefault(last)

\* C10 witness: a comparison of a table with two diet types of different
\* sizes.
C10_Witness ==
  /\ Loaded_ok
  /\ last.op = "get_diet_comparison_data"
  /\ HasMacroColumns(data[1])
  /\ Len(last.out.items) = 2
  /\ last.out.items[1].total_recipes # last.out.items[2].total_recipes

\* The processor of the latest invocation after its load.
HttpLoad == load_data_from_blob(None, blob)

IsSearchRequest == http # NoHttp /\ RouteIs(LowerRoute(http.req[1]), "search")

SearchCalls == { k \in 1..Len(http.calls) : http.calls[k].op = "search_recipes" }

\* No row of t holds the term, as literal text, in the field.
NoRowHolds(t, term, field) ==
  \/ field \notin t.cols
  \/ /\ field \in TextCols
     /\ \A i \in 1..Len(t.rows) :
          t.rows[i][field] = NA \/ ~LiteralSearch(term, t.rows[i][field])

\* C9, its first half: the handler never calls search_recipes with an empty
\* term; a search request without a term is answered with an error and makes
\* no search call.
C9_EmptyTermNeverReachesSearch ==
  /\ \A k \in SearchCalls : http.calls[k].args[1] # <<>>
  /\ (IsSearchRequest /\ ParamGet(http.req[1].term, <<>>) = <<>>) =>
       (SearchCalls = {} /\ http.status \in { 400, 500 })

\* C9: the handler never calls search_recipes with an empty term, a search
\* request without a term is rejected before the search, and a term that no
\* row holds is answered with the empty list, not with an error.
C9_SearchRejectsEmptyAnswersNoMatch ==
  /\ C9_EmptyTermNeverReachesSearch
  /\ (IsSearchRequest /\ http.conn /\ HttpLoad.ret
        /\ ParamGet(http.req[1].term, <<>>) # <<>>
        /\ NoRowHolds(HttpLoad.data[1], ParamGet(http.req[1].term, <<>>),
                      ParamGet(http.req[1].field, "Recipe_name"))) =>
       (http.status = 200 /\ http.body.kind = "list" /\ Len(http.body.items) = 0)

\* x <= y as Python compares floats: False as soon as one side is nan.
NumLeq(x, y) == IsNum(x) /\ IsNum(y) /\ FLeq(x, y)

RangesOrdered(r) ==
  /\ NumLeq(r.min, r.average) /\ NumLeq(r.average, r.max)
  /\ NumLeq(r.min, r.median) /\ NumLeq(r.median, r.max)

\* C11: whenever get_nutrient_ranges answers on a loaded dataset, every
\* nutrient it reports has min <= average <= max and min <= median <= max on
\* the rounded values, a dataset of zero rows included.
C11_RangesOrdered ==
  (Loaded_ok /\ last.op = "get_nutrient_ranges" /\ last.out.kind = "dict")
    => \A k \in 1..Len(last.out.items) : RangesOrdered(last.out.items[k][2])

\* What the query `op` answers with arguments `args` on the processor state d.
QueryResult(op, args, d) ==
  CASE op = "get_diet_summary" -> get_diet_summary(d)
    [] op = "get_macronutrient_averages" -> get_macronutrient_averages(d)
    [] op = "get_diet_comparison_data" -> get_diet_comparison_data(d)
    [] op = "get_top_recipes_by_nutrient" -> get_top_recipes_by_nutrient(d, args[1], args[2])
    [] op = "get_cuisine_distribution" -> get_cuisine_distribution(d)
    [] op = "get_nutrient_ranges" -> get_nutrient_ranges(d)
    [] op = "get_recipes_by_diet_type" -> get_recipes_by_diet_type(d, args[1])
    [] op = "search_recipes" -> search_recipes(d, args[1], args[2])

\* C12: a query call leaves the stored table as it was, and its answer is the
\* function of its arguments and of that table, so that the same call made
\* again answers the same.
C12_QueriesLeaveTable ==
  [][ last'.op \in QueryOps =>
        /\ data' = data
        /\ last'.out = QueryResult(last'.op, last'.args, data') ]_vars

C12_Witness ==
  /\ Loaded_ok
  /\ last.op = "get_top_recipes_by_nutrient"
  /\ Len(data[1].rows) >= 2
  /\ last.out.kind = "list" /\ Len(last.out.items) >= 2

\* The positions, in row order, of the rows of t whose Diet_type cell is d.
RowsWithDiet(t, d) ==
  SelectSeq([i \in 1..Len(t.rows) |-> i], LAMBDA i : t.rows[i]["Diet_type"] = d)

\* C13: on a loaded dataset get_recipes_by_diet_type(d) returns a list with
\* one entry for each row whose Diet_type is exactly d, in row order, and no
\* other entry; the list is empty when the Diet_type column is absent.
C13_RecipesOfDietInRowOrder ==
  (Loaded_ok /\ last.op = "get_recipes_by_diet_type") =>
     /\ last.out.kind = "list"
     /\ RowsOf(last.out) =
          IF "Diet_type" \in data[1].cols
            THEN RowsWithDiet(data[1], last.args[1]) ELSE <<>>

C13_Witness ==
  /\ Loaded_ok
  /\ last.op = "get_recipes_by_diet_type"
  /\ last.out.kind = "list"
  /\ Len(last.out.items) >= 1
  /\ Len(last.out.items) < Len(data[1].rows)

\* The exact mean of the numbers among the cells, nan when there is none.
ExactMean(cells) ==
  LET nn == SelectSeq(cells, IsNum)
      s == FSum(nn)
  IN  IF nn = <<>> THEN NaN ELSE Frac(s[1], s[2] * Len(nn))

\* The cells of column c in the rows of t whose diet type is diet.
GroupCells(t, c, diet) ==
  LET idx == RowsWithDiet(t, diet) IN [k \in 1..Len(idx) |-> t.rows[idx[k]][c]]

DietSet(t) == { t.rows[i]["Diet_type"] : i \in 1..Len(t.rows) }

\* out holds one entry per distinct diet type of t, each with one value per
\* macronutrient column present, the value being Val of the exact mean of the
\* column over the rows of the diet.
AveragesMatch(t, out, Val(_)) ==
  LET present == { c \in NumCols : c \in t.cols } IN
  IF "Diet_type" \notin t.cols \/ present = {} THEN out = Dict(<<>>)
  ELSE /\ out.kind = "dict"
       /\ Len(out.items) = Cardinality(DietSet(t))
       /\ { out.items[i][1] : i \in 1..Len(out.items) } = DietSet(t)
       /\ \A i \in 1..Len(out.items) :
            LET averages == out.items[i][2] IN
            /\ Len(averages) = Cardinality(present)
            /\ { averages[k] : k \in 1..Len(averages) } =
                 { << NutrientName(c), Val(ExactMean(GroupCells(t, c, out.items[i][1]))) >> :
                     c \in present }

\* The documented answer on the three recipes.
ThreeRecipesAverages ==
  Dict(<< << vegan, << << "Protein", Whole(20) >>, << "Carbs", Whole(15) >>,
                       << "Fat", Frac(7, 2) >> >> >>,
          << keto, << << "Protein", Whole(5) >>, << "Carbs", Whole(5) >>,
                      << "Fat", Whole(25) >> >> >> >>)

OnThreeRecipes == data[1] = ThreeRecipes => last.out = ThreeRecipesAverages

Unrounded(x) == x

\* C14 as stated: on a loaded dataset get_macronutrient_averages holds, per
\* distinct diet type and per macronutrient column present, the mean of the
\* column over the rows of that diet; the empty mapping without Diet_type or
\* without macronutrient column; the documented answer on the three recipes.
C14_AveragesAreMeans ==
  (Loaded_ok /\ last.op = "get_macronutrient_averages") =>
     AveragesMatch(data[1], last.out, Unrounded) /\ OnThreeRecipes

\* C14 amended: the value is that mean rounded to two decimals.
C14_AveragesAreRoundedMeans ==
  (Loaded_ok /\ last.op = "get_macronutrient_averages") =>
     AveragesMatch(data[1], last.out, Round2) /\ OnThreeRecipes

C14_Witness ==
  /\ Loaded_ok
  /\ last.op = "get_macronutrient_averages"
  /\ last.out.kind = "dict" /\ Len(last.out.items) >= 1
  /\ ~AveragesMatch(data[1], last.out, Unrounded)

C14_WitnessThreeRecipes ==
  /\ Loaded_ok
  /\ last.op = "get_macronutrient_averages"
  /\ data[1] = ThreeRecipes

\* The number of rows of t with diet type diet and cuisine type cuisine.
RowsWithBoth(t, diet, cuisine) ==
  Cardinality({ i \in 1..Len(t.rows) :
                  t.rows[i]["Diet_type"] = diet /\ t.rows[i]["Cuisine_type"] = cuisine })

RECURSIVE SumCounts(_)
SumCounts(pairs) == IF pairs = <<>> THEN 0 ELSE Head(pairs)[2] + SumCounts(Tail(pairs))

\* C15: on a loaded dataset get_cuisine_distribution holds one entry per
\* distinct diet type, mapping each cuisine type found among the rows of the
\* diet to the number of those rows with it, never a zero count, the counts
\* of a diet adding up to its number of rows; without the Diet_type or the
\* Cuisine_type column it is the empty mapping.
C15_CuisineCountsPerDiet ==
  (Loaded_ok /\ last.op = "get_cuisine_distribution") =>
    LET t == data[1]
        out == last.out
    IN  IF "Diet_type" \notin t.cols \/ "Cuisine_type" \notin t.cols THEN out = Dict(<<>>)
        ELSE /\ out.kind = "dict"
             /\ Len(out.items) = Cardinality(DietSet(t))
             /\ { out.items[i][1] : i \in 1..Len(out.items) } = DietSet(t)
             /\ \A i \in 1..Len(out.items) :
                  LET diet == out.items[i][1]
                      counts == out.items[i][2]
                      cuisines == { t.rows[r]["Cuisine_type"] : r \in
                                      { r \in 1..Len(t.rows) : t.rows[r]["Diet_type"] = diet } }
                  IN  /\ Len(counts) = Cardinality(cuisines)
                      /\ { counts[k] : k \in 1..Len(counts) } =
                           { << c, RowsWithBoth(t, diet, c) >> : c \in cuisines }
                      /\ \A k \in 1..Len(counts) : counts[k][2] > 0
                      /\ SumCounts(counts) = Len(RowsWithDiet(t, diet))

C15_Witness ==
  /\ Loaded_ok
  /\ last.op = "get_cuisine_distribution"
  /\ last.out.kind = "dict"
  /\ Len(last.out.items) >= 2
  /\ \E i \in 1..Len(last.out.items) : Len(last.out.items[i][2]) >= 2

IsTopRequest == http # NoHttp /\ RouteIs(LowerRoute(http.req[1]), "top-recipes")

TopCalls == { k \in 1..Len(http.calls) : http.calls[k].op = "get_top_recipes_by_nutrient" }

\* The n the handler is to pass for the request's n parameter.
ExpectedN(param) ==
  IF param = <<>> \/ ~param[1].int THEN 10
  ELSE IF param[1].v < 1 THEN 1
  ELSE IF param[1].v > 100 THEN 100
  ELSE param[1].v

\* C16: every call of get_top_recipes_by_nutrient made for an HTTP top-recipes
\* request has 1 <= n <= 100, n being 10 for an absent or unparsable
\* parameter and the nearest end of the range for a value outside it; and
\* when the loaded table has no "<nutrient>(g)" column the call returns the
\* empty list.
C16_TopNClampedUnknownNutrientEmpty ==
  IsTopRequest =>
    \A k \in TopCalls :
      LET call == http.calls[k] IN
      /\ call.args[2] >= 1 /\ call.args[2] <= 100
      /\ call.args[2] = ExpectedN(http.req[1].n)
      /\ (NutrientCol(call.args[1]) \notin HttpLoad.data[1].cols
            => call.out = List(<<>>) /\ http.status = 200 /\ http.body = List(<<>>))

C16_Witness ==
  /\ IsTopRequest
  /\ http.req[1].n = Present([int |-> TRUE, v |-> 101])
  /\ http.req[1].nutrient = Present("Sugar")
  /\ \E k \in TopCalls : http.calls[k].args = << "Sugar", 100 >>
  /\ Len(HttpLoad.data[1].rows) >= 1
  /\ http.status = 200

\* C17: whatever the interleaving of two invocations and of uploads, the
\* response of an invocation (status, body and the calls behind it) is the one
\* main gives for its own request, its own connection setting and the source
\* its own load read.
C17_ResponseOwnRequestOwnSource ==
  \A i \in Invocations :
    inv[i].pc = "done" =>
      LET r == main(inv[i].req[1], inv[i].conn, inv[i].src)
      IN  inv[i].status = r.status /\ inv[i].body = r.body /\ inv[i].calls = r.calls

\* Two invocations of the same request in flight, one loaded a table and
\* answered 200, the load of the other failed.
C17_Witness ==
  /\ inv[1].pc = "done" /\ inv[2].pc = "done"
  /\ inv[1].req = inv[2].req
  /\ inv[1].conn /\ inv[2].conn
  /\ inv[1].src = Csv(ThreeRecipes) /\ inv[1].status = 200
  /\ Len(inv[1].calls) = 3
  /\ inv[2].src = Missing /\ inv[2].status = 500

IsHealthRequest == http # NoHttp /\ RouteIs(LowerRoute(http.req[1]), "health")

QueryCalls == { k \in 1..Len(http.calls) : http.calls[k].op \in QueryOps }

LoadCalls == { k \in 1..Len(http.calls) : http.calls[k].op = "load_data_from_blob" }

\* C18: an invocation for "health" answers 200 and calls nothing, neither the
\* constructor nor the load.  Any other invocation whose processor was built
\* attempts the load as its second call, before every query call; when that
\* load fails the answer is 500 and no query is called, also for a search
\* with an empty term; a 400 or a query call is only seen after a load that
\* succeeded.
C18_LoadBeforeRouting ==
  http # NoHttp =>
    IF IsHealthRequest THEN http.status = 200 /\ http.calls = <<>>
    ELSE /\ http.calls # <<>> /\ http.calls[1].op = "__init__"
         /\ http.conn =>
              /\ LoadCalls = { 2 }
              /\ \A k \in QueryCalls : k > 2
              /\ http.calls[2].out = Bool(FALSE) =>
                   http.status = 500 /\ QueryCalls = {}
         /\ (http.status = 400 \/ QueryCalls # {}) =>
              2 \in LoadCalls /\ http.calls[2].out = Bool(TRUE)
         /\ ~http.conn => http.status = 500 /\ LoadCalls = {} /\ QueryCalls = {}

\* A search with an empty term whose load failed: answered 500.
C18_Witness ==
  /\ IsSearchRequest
  /\ ParamGet(http.req[1].term, <<>>) = <<>>
  /\ http.conn
  /\ LoadCalls = { 2 } /\ http.calls[2].out = Bool(FALSE)
  /\ http.status = 500

\* A collaborator failed: the constructor or a query raised, or the load
\* returned False.
CollaboratorFailed ==
  \E k \in 1..Len(http.calls) :
     \/ http.calls[k].out.kind = "raise"
     \/ http.calls[k].out.kind = "bool" /\ http.calls[k].out = Bool(FALSE)

\* C19: every invocation ends with one response whose status is 200, 400 or
\* 500; a failure of a collaborator is answered 500 and an invocation without
\* one is not; 400 is the answer only to a search with an empty term whose
\* load succeeded.
C19_HandlerTotal ==
  http # NoHttp =>
    /\ http.status \in { 200, 400, 500 }
    /\ CollaboratorFailed <=> http.status = 500
    /\ http.status = 200 <=> http.body.kind # "raise"
    /\ http.status = 400 =>
         /\ IsSearchRequest
         /\ ParamGet(http.req[1].term, <<>>) = <<>>
         /\ http.conn
         /\ LoadCalls = { 2 } /\ http.calls[2].out = Bool(TRUE)
         /\ QueryCalls = {}

\* A query raised inside an invocation and the answer is 500.
C19_Witness ==
  /\ http # NoHttp
  /\ \E k \in QueryCalls : http.calls[k].out.kind = "raise"
  /\ http.status = 500

IsRecipesRequest == http # NoHttp /\ LowerRoute(http.req[1]).word = "recipes/"

HasUpper(s) == Lower(s) # s

\* C20: for a "recipes/{diet_type}" request the diet type passed to
\* get_recipes_by_diet_type is the lower-cased route suffix, and when that
\* suffix is, case apart, a diet label of the loaded table that holds an
\* upper-case letter, the call returns the empty list.
C20_DietTypeIsLoweredSuffix ==
  IsRecipesRequest =>
    \A k \in QueryCalls :
      LET call == http.calls[k]
          t == HttpLoad.data[1]
      IN  /\ call.op = "get_recipes_by_diet_type"
          /\ call.args[1] = Lower(http.req[1].tail)
          /\ ("Diet_type" \in t.cols /\
                \E i \in 1..Len(t.rows) :
                   /\ t.rows[i]["Diet_type"] # NA
                   /\ HasUpper(t.rows[i]["Diet_type"])
                   /\ Lower(t.rows[i]["Diet_type"]) = Lower(http.req[1].tail))
               => call.out = List(<<>>)

====
